---- MODULE Spec2Model ----
(***************************************************************************)
(* Task orchestration and status tracking of the AI-Agent backend:         *)
(* the orchestrator endpoints (assign_task, get_task_result, get_tasks,    *)
(* the live-update websocket), the Celery worker running execute_task and *)
(* the dynamically registered worker.<name> tasks, the legacy executor of  *)
(* src/tasks.py, and the result backend they share.                        *)
(*                                                                         *)
(* The Celery library is the environment of the program.  It is modelled   *)
(* by what the configuration of the two Celery applications selects:       *)
(*   - task_track_started: the worker stores STARTED when it claims a task *)
(*   - task_acks_late: the message is acknowledged after the task body     *)
(*     ended (returned or raised); a worker lost before that leaves the    *)
(*     message unacknowledged and the broker delivers it again             *)
(*   - a task body that returns stores SUCCESS with the return value, one  *)
(*     that raises stores FAILURE with the exception instance              *)
(*   - a message naming a task the worker did not register is rejected and *)
(*     stored as FAILURE with a NotRegistered exception                    *)
(*   - result_expires: a stored result is deleted after the retention time *)
(*   - AsyncResult of an id with no stored entry reports state PENDING     *)
(***************************************************************************)
EXTENDS Integers, Sequences, FiniteSets, TLC

\* ------------------------------------------------------------------ bounds
MaxTasks == 2      \* task ids handed out by the broker
MaxCrashes == 1    \* worker losses (each one redelivers a message)
MaxClock == 2      \* ticks of the wall clock
MaxSubs == 2       \* websocket connections
MaxPolls == 2      \* iterations of one websocket loop

TaskIds == 1..MaxTasks
Subs == 1..MaxSubs
None == -1         \* Python None for a timestamp or a duration

\* Task types a client may name.  "no_such_type" stands for every name that
\* is neither a key of task_map nor one of the statically registered tasks.
TaskTypes == {"test_task", "approve_batches", "no_such_type"}

\* Names of the Celery tasks a message can carry.
DynamicName == "worker.<task_type>"
ExecuteName == "worker.execute_task"
ListName == "worker.list_available_tasks"
LegacyName == "tasks.execute_task"

ReadyStates == {"SUCCESS", "FAILURE"}

VARIABLES
  batchAvailable,  \* import batch_approval_service succeeded
  nextId,          \* the next task id the broker hands out
  msg,             \* msg[t]: the queue message of task t
  store,           \* store[t]: the result backend entry of task t
  w,               \* the worker process: position in the task body, locals
  clock,           \* wall clock
  crashes,         \* worker losses so far
  resp,            \* the last answer of GET /result/{task_id}
  lastAssign,      \* the last answer of POST /assign-task/
  tasksCall,       \* the GET /tasks/ request: the task it waits for, its answer
  active_connections, \* ConnectionManager.active_connections
  sub,             \* sub[s]: websocket_endpoint coroutine of connection s
  inbox,           \* inbox[s]: what the client of connection s received
  pool,            \* the execution pool start_worker chose for the platform
  lookup,          \* the last direct call of get_automation_function
  ab,              \* an invocation of approve_batches(params)
  testRun          \* the last direct call of test_automation_task(params)

vars == <<batchAvailable, nextId, msg, store, w, clock, crashes, resp,
          lastAssign, tasksCall, active_connections, sub, inbox, pool,
          lookup, ab, testRun>>

pushVars == <<active_connections, sub, inbox>>

\* ------------------------------------------------------------ the registry
\* task_map: the handler of a task name, "none" for a key whose handler is
\* unavailable, "absent" for a name that is no key.
NoErr == [kind |-> "none", about |-> "none"]

task_map(name) ==
  IF name = "test_task" THEN "test_automation_task"
  ELSE IF name = "approve_batches"
    THEN (IF batchAvailable THEN "approve_batches" ELSE "none")
  ELSE "absent"

\* list(task_map.keys()) and list(TASK_MAPPING.keys()).
task_map_keys == {"approve_batches", "test_task"}

TASK_MAPPING_keys == {"approve_batches", "test_task"}

\* A lookup that falls back to the test handler for a name it does not know.
get_automation_function_Default(task_name) ==
  IF task_map(task_name) = "absent" THEN "test_automation_task"
  ELSE task_map(task_name)

\* get_automation_function: None ("none") for an unknown name and for a key
\* whose function is None.
get_automation_function(task_name) ==
  IF task_map(task_name) = "absent" THEN "none"
  ELSE task_map(task_name)

\* register_tasks: worker.<name> is registered for the keys of task_map whose
\* function is available.
DynamicRegistered(task_type) ==
  task_map(task_type) \notin {"absent", "none"}

\* ------------------------------------------------------------------- Timer
NewTimer == [start_time |-> None, end_time |-> None]

TimerEnter(now) == [start_time |-> now, end_time |-> None]

TimerExit(t, now) == [t EXCEPT !.end_time = now]

\* Timer.duration: the elapsed time once timing is complete, else None.
TimerDuration(t) ==
  IF t.start_time # None /\ t.end_time # None
    THEN t.end_time - t.start_time
    ELSE None

\* f"{x:.2f}" raises TypeError for None.
FormatRaises(x) == x = None

\* ---------------------------------------------------------- result backend
NoEntry ==
  [state |-> "NONE", info |-> "none", error |-> NoErr,
   started_at |-> None, finished_at |-> None, execution_time |-> None]

\* Celery's own STARTED record: meta is {pid, hostname}.
StartedEntry ==
  [NoEntry EXCEPT !.state = "STARTED", !.info = "meta"]

\* update_state(state='PROGRESS', meta={status, task_type, started_at})
ProgressEntry(started) ==
  [NoEntry EXCEPT !.state = "PROGRESS", !.info = "meta",
                  !.started_at = started]

\* A FAILURE record that leaves out the time of failure.
FailureMetaEntry_NoFailedAt(err, started, failed) ==
  [NoEntry EXCEPT !.state = "FAILURE", !.info = "meta", !.error = err,
                  !.started_at = started]

\* update_state(state='FAILURE', meta={status, task_type, error, started_at,
\* failed_at, screenshot_path})
FailureMetaEntry(err, started, failed) ==
  [NoEntry EXCEPT !.state = "FAILURE", !.info = "meta", !.error = err,
                  !.started_at = started, !.finished_at = failed]

\* Celery marking the task failed with the exception the body raised.
FailureExcEntry(err) ==
  [NoEntry EXCEPT !.state = "FAILURE", !.info = "exc", !.error = err]

\* Celery storing the return value of the body: a dict ("result") or another
\* value ("value").
SuccessEntry(kind, started, completed, exectime) ==
  [NoEntry EXCEPT !.state = "SUCCESS", !.info = kind,
                  !.started_at = started, !.finished_at = completed,
                  !.execution_time = exectime]

\* AsyncResult.state: PENDING for an id the backend holds nothing for.
AsyncResultState(e) == IF e.state = "NONE" THEN "PENDING" ELSE e.state

\* Reading an entry whose status is FAILURE converts the stored result back
\* to an exception; the dict update_state stored carries no exception type,
\* and the read raises.
AsyncResultRaises(e) == e.state = "FAILURE" /\ e.info = "meta"

\* AsyncResult.info has .get: a dict, not an exception and not a plain value.
InfoIsMapping(e) == e.info \in {"meta", "result"}

\* AsyncResult.info is truthy.
InfoTruthy(e) == e.info # "none"

Lower(s) ==
  CASE s = "PENDING" -> "pending"
    [] s = "STARTED" -> "started"
    [] s = "PROGRESS" -> "progress"
    [] s = "SUCCESS" -> "success"
    [] s = "FAILURE" -> "failure"

\* ----------------------------------------------------- GET /result/{task_id}
NoResp ==
  [task_id |-> 0, code |-> 0, status |-> "none", error |-> NoErr, started_at |-> None,
   finished_at |-> None, has_result |-> FALSE]

ErrorResp == [NoResp EXCEPT !.code = 500, !.status = "error"]

\* A not-ready branch that answers "unknown" for an id the backend holds
\* nothing for.
StillRunningResp_Unknown(e) ==
  [NoResp EXCEPT !.code = 200,
                 !.status = IF e.state = "NONE" THEN "unknown"
                            ELSE Lower(AsyncResultState(e)),
                 !.started_at = e.started_at]

\* get_task_result, lines 312-321: the task is not ready; the status is the
\* lower-cased Celery state.
StillRunningResp(e) ==
  [NoResp EXCEPT !.code = 200, !.status = Lower(AsyncResultState(e)),
                 !.started_at = e.started_at]

\* get_task_result: the answer for backend entry e.
get_task_result(e) ==
  IF AsyncResultRaises(e) THEN ErrorResp
  ELSE IF AsyncResultState(e) \in ReadyStates THEN
    IF AsyncResultState(e) = "SUCCESS" THEN
      \* result_data.get(...) on the stored return value
      IF InfoIsMapping(e)
        THEN [NoResp EXCEPT !.code = 200, !.status = "completed",
                            !.started_at = e.started_at,
                            !.finished_at = e.finished_at,
                            !.has_result = TRUE]
        ELSE ErrorResp
    ELSE
      \* error_info.get(...) on async_result.info
      IF InfoIsMapping(e)
        THEN [NoResp EXCEPT !.code = 200, !.status = "failed",
                            !.error = e.error,
                            !.started_at = e.started_at,
                            !.finished_at = e.finished_at]
        ELSE ErrorResp
  ELSE StillRunningResp(e)

\* ------------------------------------------------------------------- state
NoMsg == [name |-> "none", task_type |-> "none", queue |-> "none",
          status |-> "none", deliveries |-> 0]

\* The dict execute_task hands back, before the metadata is merged in.
NoResult == [task_id |-> None, task_type |-> "none", status |-> "none",
             started_at |-> None, completed_at |-> None,
             execution_time |-> None]

Idle ==
  [pc |-> "idle", tid |-> 0, task_type |-> "none", start_timestamp |-> None,
   timer |-> NewTimer, exc |-> NoErr, returned |-> "none",
   result |-> NoResult, overdue |-> FALSE]

NoSub == [pc |-> "idle", tid |-> 0, open |-> FALSE, left |-> FALSE,
          polls |-> 0, final_status |-> "none", dropped |-> FALSE,
          key |-> TRUE]

\* worker.py start_worker: --pool solo on Windows, --pool prefork elsewhere.
Pools == {"prefork", "solo"}

\* The names get_automation_function is called with directly: the task
\* types, and the empty string.
Names == TaskTypes \cup {""}

NoLookup == [name |-> "none", func |-> "none"]

NoInbox == [updates |-> 0, finals |-> 0, foreign |-> FALSE]

\* service.approve_batches(params): where the invocation is, whether a
\* browser exists, whether self.driver refers to it, whether quit() was
\* called on it, and the dict the invocation returned.
NoInvocation ==
  [pc |-> "idle", browser |-> FALSE, driver |-> FALSE, quit |-> FALSE,
   status |-> "none", error |-> "none", processed |-> FALSE]

\* test_automation_task(params): the arguments and what came back.
NoTestRun ==
  [duration |-> None, success_rate |-> None, outcome |-> "none",
   status |-> "none", approved_count |-> 0, details |-> <<>>,
   execution_time |-> None, message |-> <<>>]

\* The answer of GET /tasks/; task_id is the worker call it waits for.
NoTasksAnswer ==
  [status |-> "none", task_id |-> 0, code |-> 0, available_tasks |-> {},
   fallback_tasks |-> {}]

Init ==
  /\ batchAvailable \in BOOLEAN
  /\ nextId = 1
  /\ msg = [t \in TaskIds |-> NoMsg]
  /\ store = [t \in TaskIds |-> NoEntry]
  /\ w = Idle
  /\ clock = 0
  /\ crashes = 0
  /\ resp = NoResp
  /\ lastAssign = [status |-> "none", task_id |-> 0]
  /\ tasksCall = NoTasksAnswer
  /\ active_connections = [t \in TaskIds |-> 0]
  /\ sub = [s \in Subs |-> NoSub]
  /\ inbox = [s \in Subs |-> NoInbox]
  /\ pool \in Pools
  /\ lookup = NoLookup
  /\ ab = NoInvocation
  /\ testRun = NoTestRun

\* The part of a task name before its first dot.
NamePrefix(name) ==
  IF name \in {DynamicName, ExecuteName, ListName} THEN "worker"
  ELSE IF name = LegacyName THEN "tasks"
  ELSE "none"

\* A router that knows no route and sends every name to Celery's built-in
\* queue.
Route_Celery(name) == "celery"

\* task_routes and task_default_queue of CELERY_CONFIG: 'worker.*' goes to
\* worker_queue, 'automation.*' to automation_queue, any other name to the
\* default queue, 'default'.
Route(name) ==
  IF NamePrefix(name) = "worker" THEN "worker_queue"
  ELSE IF NamePrefix(name) = "automation" THEN "automation_queue"
  ELSE "default"

\* The legacy application configures no queue: Celery's built-in 'celery'.
LegacyQueue == "celery"

\* start_worker: the last --queues option of the command line.
Consumed == {"worker_queue", "automation_queue", "default"}

\* send_task: the broker hands out a fresh id and queues the message.
Enqueue(name, task_type, queue) ==
  /\ nextId \in TaskIds
  /\ msg' = [msg EXCEPT ![nextId] =
       [name |-> name, task_type |-> task_type, queue |-> queue,
        status |-> "queued", deliveries |-> 0]]
  /\ nextId' = nextId + 1

\* ------------------------------------------------------------ orchestrator
\* POST /assign-task/: send_task(name=f"worker.{task_type}", args=[params]);
\* an exception of send_task (broker unavailable) is answered with an error
\* that carries no task_id.
AssignAnswer_Assigned(brokerUp, id) ==
  [status |-> "assigned", task_id |-> id]

AssignAnswer(brokerUp, id) ==
  IF brokerUp THEN [status |-> "assigned", task_id |-> id]
  ELSE [status |-> "error", task_id |-> 0]

assign_task(task_type, brokerUp) ==
  /\ IF brokerUp
       THEN /\ Enqueue(DynamicName, task_type, Route(DynamicName))
            /\ lastAssign' = AssignAnswer(brokerUp, nextId)
       ELSE /\ lastAssign' = AssignAnswer(brokerUp, nextId)
            /\ UNCHANGED <<msg, nextId>>
  /\ UNCHANGED <<batchAvailable, pool, lookup, ab, testRun, store, w, clock,
                 crashes, resp, tasksCall>>
  /\ UNCHANGED pushVars

\* api_key_middleware, registered with @app.middleware("http"): it runs for
\* requests of the http scope only, lets the documentation paths through,
\* and answers 401 to any other request without the right x-api-key.
DocPaths == {"/docs", "/openapi.json", "/redoc"}

api_key_middleware(path, scope, keyOk) ==
  IF scope # "http" THEN "pass"
  ELSE IF path \in DocPaths THEN "pass"
  ELSE IF keyOk THEN "pass"
  ELSE "401"

\* TaskRequest: task_type is any str, the empty one too; params must be a
\* dict.  FastAPI answers 422 to a body that does not validate.
TaskRequestValid(task_type, paramsIsMapping) == paramsIsMapping

\* POST /assign-task/ as a client sends it: middleware, validation of the
\* body, then assign_task.
post_assign_task(keyOk, task_type, paramsIsMapping, brokerUp) ==
  IF api_key_middleware("/assign-task/", "http", keyOk) = "401"
    THEN /\ lastAssign' = [status |-> "unauthorized", task_id |-> 0]
         /\ UNCHANGED <<batchAvailable, pool, lookup, ab, testRun, nextId,
                        msg, store, w, clock, crashes, resp, tasksCall>>
         /\ UNCHANGED pushVars
    ELSE IF ~TaskRequestValid(task_type, paramsIsMapping)
      THEN /\ lastAssign' = [status |-> "invalid", task_id |-> 0]
           /\ UNCHANGED <<batchAvailable, pool, lookup, ab, testRun, nextId,
                          msg, store, w, clock, crashes, resp, tasksCall>>
           /\ UNCHANGED pushVars
      ELSE assign_task(task_type, brokerUp)

\* GET /tasks/, lines 180-196: the answer once the worker call has ended
\* with entry e, or has not ended in time.  A listing that arrived is
\* answered with its available_tasks; anything else is answered by the except
\* branch: status 500, "error", the fallback list under details.
GetTasksAnswer_NoFallback(e, tid) ==
  IF e.state = "SUCCESS"
    THEN [status |-> "ok", task_id |-> tid, code |-> 200,
          available_tasks |-> task_map_keys, fallback_tasks |-> {}]
    ELSE [status |-> "error", task_id |-> tid, code |-> 500,
          available_tasks |-> {}, fallback_tasks |-> {}]

GetTasksAnswer(e, tid) ==
  IF e.state = "SUCCESS"
    THEN [status |-> "ok", task_id |-> tid, code |-> 200,
          available_tasks |-> task_map_keys, fallback_tasks |-> {}]
    ELSE [status |-> "error", task_id |-> tid, code |-> 500,
          available_tasks |-> {},
          fallback_tasks |-> {"approve_batches", "test_task"}]

\* GET /tasks/, lines 168-176: send worker.list_available_tasks with no
\* arguments, then wait for its result; send_task raising (the broker is
\* unavailable) goes to the except branch at once.
get_tasks_send(brokerUp) ==
  /\ tasksCall.status # "waiting"
  /\ IF brokerUp
       THEN /\ Enqueue(ListName, "none", Route(ListName))
            /\ tasksCall' = [NoTasksAnswer EXCEPT !.status = "waiting",
                                                  !.task_id = nextId]
       ELSE /\ tasksCall' = GetTasksAnswer(NoEntry, 0)
            /\ UNCHANGED <<msg, nextId>>
  /\ UNCHANGED <<batchAvailable, pool, lookup, ab, testRun, store, w, clock,
                 crashes, resp, lastAssign>>
  /\ UNCHANGED pushVars

\* GET /tasks/, lines 178-196: result.get(timeout=10) returns the worker's
\* listing, and the endpoint answers with available_tasks; or it raises (the
\* wait timed out), and the endpoint answers 500 with status "error" and the
\* fallback list under details.
get_tasks_return ==
  /\ tasksCall.status = "waiting"
  /\ tasksCall' = GetTasksAnswer(store[tasksCall.task_id], tasksCall.task_id)
  /\ UNCHANGED <<batchAvailable, pool, lookup, ab, testRun, nextId, msg,
                 store, w, clock, crashes, resp, lastAssign>>
  /\ UNCHANGED pushVars

\* A Celery client sending worker.execute_task(task_type, params).
send_execute_task(task_type) ==
  /\ Enqueue(ExecuteName, task_type, Route(ExecuteName))
  /\ UNCHANGED <<batchAvailable, pool, lookup, ab, testRun, store, w, clock,
                 crashes, resp, lastAssign, tasksCall>>
  /\ UNCHANGED pushVars

\* src/main.py assign_task: execute_task.delay(task_type, params) of the
\* legacy application.
legacy_assign_task(task_type) ==
  /\ Enqueue(LegacyName, task_type, LegacyQueue)
  /\ UNCHANGED <<batchAvailable, pool, lookup, ab, testRun, store, w, clock,
                 crashes, resp, lastAssign, tasksCall>>
  /\ UNCHANGED pushVars

\* GET /result/{task_id} for any id, submitted or not.
Query(t) ==
  /\ resp' = [get_task_result(store[t]) EXCEPT !.task_id = t]
  /\ UNCHANGED <<batchAvailable, pool, lookup, ab, testRun, nextId, msg,
                 store, w, clock, crashes, lastAssign, tasksCall>>
  /\ UNCHANGED pushVars

\* GET /result/{task_id} as a client sends it: middleware, then
\* get_task_result.
get_result(keyOk, t) ==
  IF api_key_middleware("/result/{task_id}", "http", keyOk) = "401"
    THEN /\ resp' = [NoResp EXCEPT !.task_id = t, !.code = 401,
                                   !.status = "unauthorized"]
         /\ UNCHANGED <<batchAvailable, pool, lookup, ab, testRun, nextId,
                        msg, store, w, clock, crashes, lastAssign,
                        tasksCall>>
         /\ UNCHANGED pushVars
    ELSE Query(t)

\* result_expires: the backend deletes a stored result after the retention
\* time.
Expire(t) ==
  /\ store[t].state \in ReadyStates
  /\ msg[t].status \in {"acked", "rejected"}
  /\ store' = [store EXCEPT ![t] = NoEntry]
  /\ UNCHANGED <<batchAvailable, pool, lookup, ab, testRun, nextId, msg, w,
                 clock, crashes, resp, lastAssign, tasksCall>>
  /\ UNCHANGED pushVars

\* A direct call of get_automation_function(name), as the tests make it.
Lookup(name) ==
  /\ lookup' = [name |-> name, func |-> get_automation_function(name)]
  /\ UNCHANGED <<batchAvailable, pool, ab, testRun, nextId, msg, store, w,
                 clock, crashes, resp, lastAssign, tasksCall>>
  /\ UNCHANGED pushVars

\* ---------------------------------------------------------------- handlers
\* Numbers in tenths: the durations and success rates a caller passes, and
\* the values random.random() (0.0 <= x < 1.0), random.randint(1, 10) and
\* random.randint(1, 5) can draw.
Durations == {1, 20}
SuccessRates == {0, 8, 10}
RandomDraws == 0..9
CountDraws == {1, 10}
ItemDraws == {1, 5}

FailureMessage == <<"Test", "task", "failed", "(simulated", "failure)">>

\* A success test that also succeeds when the draw equals the rate.
test_automation_task_Inclusive(duration, success_rate, x, count, items) ==
  IF x <= success_rate
    THEN [NoTestRun EXCEPT !.duration = duration,
                           !.success_rate = success_rate,
                           !.outcome = "return", !.status = "completed",
                           !.approved_count = count,
                           !.details = [i \in 1..items |-> "approved"],
                           !.execution_time = duration]
    ELSE [NoTestRun EXCEPT !.duration = duration,
                           !.success_rate = success_rate,
                           !.outcome = "raise", !.message = FailureMessage]

\* test_automation_task, lines 133-155: sleep for the duration, then
\* success = random.random() < success_rate; the result dict, or
\* Exception("Test task failed (simulated failure)").
test_automation_task(duration, success_rate, x, count, items) ==
  IF x < success_rate
    THEN [NoTestRun EXCEPT !.duration = duration,
                           !.success_rate = success_rate,
                           !.outcome = "return", !.status = "completed",
                           !.approved_count = count,
                           !.details = [i \in 1..items |-> "approved"],
                           !.execution_time = duration]
    ELSE [NoTestRun EXCEPT !.duration = duration,
                           !.success_rate = success_rate,
                           !.outcome = "raise", !.message = FailureMessage]

\* A direct call of test_automation_task, as the tests make it.
call_test_automation_task(duration, success_rate, x, count, items) ==
  /\ testRun' = test_automation_task(duration, success_rate, x, count, items)
  /\ UNCHANGED <<batchAvailable, pool, lookup, ab, nextId, msg, store, w,
                 clock, crashes, resp, lastAssign, tasksCall>>
  /\ UNCHANGED pushVars

\* approve_batches(params), lines 524-535 and 392-408: a new service object
\* (self.driver = None) and the initial result, status 'running'.
abUnchanged ==
  /\ UNCHANGED <<batchAvailable, pool, lookup, testRun, nextId, msg, store,
                 w, clock, crashes, resp, lastAssign, tasksCall>>
  /\ UNCHANGED pushVars

ab_invoke ==
  /\ ab.pc \in {"idle", "returned"}
  /\ ab' = [NoInvocation EXCEPT !.pc = "setup", !.status = "running"]
  /\ abUnchanged

\* Line 414, self.driver = self._setup_driver(): the driver cannot be started
\* ("none"); or webdriver.Chrome() returned a browser and one of the calls
\* that configure it raised, so that _setup_driver re-raises and self.driver
\* is never assigned ("unconfigured"); or the driver is returned ("ok").
ab_setup_driver(outcome) ==
  /\ ab.pc = "setup"
  /\ ab' = IF outcome = "none"
             THEN [ab EXCEPT !.pc = "except", !.error = "setup"]
           ELSE IF outcome = "unconfigured"
             THEN [ab EXCEPT !.pc = "except", !.error = "setup",
                             !.browser = TRUE]
           ELSE [ab EXCEPT !.pc = "login", !.browser = TRUE,
                           !.driver = TRUE]
  /\ abUnchanged

\* Lines 418-421: _login() returns False on any failure, and approve_batches
\* raises "Failed to login to Naipunyam portal".
ab_login(ok) ==
  /\ ab.pc = "login"
  /\ ab' = IF ok THEN [ab EXCEPT !.pc = "navigate"]
           ELSE [ab EXCEPT !.pc = "except", !.error = "login"]
  /\ abUnchanged

\* Lines 424-427: _navigate_to_pending_batches() returning False.
ab_navigate(ok) ==
  /\ ab.pc = "navigate"
  /\ ab' = IF ok THEN [ab EXCEPT !.pc = "process"]
           ELSE [ab EXCEPT !.pc = "except", !.error = "navigate"]
  /\ abUnchanged

\* Lines 430-485: no pending batches, return result at once; or the batches
\* are processed, each failure counted in the result, and the block ends.
\* Neither path changes result['status'].
ab_process(pending) ==
  /\ ab.pc = "process"
  /\ ab' = [ab EXCEPT !.pc = "finally", !.processed = pending]
  /\ abUnchanged

\* Lines 487-505: result.update(status='failed', error=str(e), ...).
ab_except ==
  /\ ab.pc = "except"
  /\ ab' = [ab EXCEPT !.pc = "finally", !.status = "failed"]
  /\ abUnchanged

\* Lines 507-521: if self.driver: self.driver.quit(), whose own exception is
\* logged; then return result.
ab_finally ==
  /\ ab.pc = "finally"
  /\ ab' = [ab EXCEPT !.pc = "returned", !.quit = ab.driver]
  /\ abUnchanged

\* ------------------------------------------------------------------ worker
\* The worker of worker_service registered this task name.
Registered(m) ==
  \/ m.name \in {ExecuteName, ListName}
  \/ m.name = DynamicName /\ DynamicRegistered(m.task_type)

\* The acknowledgement Celery sends when the task body has ended, by return
\* or by exception; nothing in the configuration retries a failed task.
Ack_Requeue(t) == [msg EXCEPT ![t].status = "queued"]

Ack(t) == [msg EXCEPT ![t].status = "acked"]

\* task_acks_late = True: a message whose worker went away before the
\* acknowledgement is still unacknowledged, and the broker hands it out again.
Redeliver_Lost(t) == [msg EXCEPT ![t].status = "acked"]

Redeliver(t) == [msg EXCEPT ![t].status = "queued"]

\* self.request.id: the id of the task the worker is executing.
request_id_Shared(wk) == 1

request_id(wk) == wk.tid

\* The worker (concurrency 1, prefetch 1) takes a queued message from one of
\* the queues it consumes.  A name it
\* did not register is rejected and stored as FAILURE (NotRegistered); a
\* registered one is stored as STARTED and its body begins.
Claim(t) ==
  /\ w.pc = "idle"
  /\ msg[t].status = "queued"
  /\ msg[t].queue \in Consumed
  /\ IF Registered(msg[t])
       THEN /\ msg' = [msg EXCEPT ![t].status = "active",
                                  ![t].deliveries = @ + 1]
            /\ store' = [store EXCEPT ![t] = StartedEntry]
            /\ w' = [Idle EXCEPT !.pc = "body", !.tid = t,
                                 !.task_type = msg[t].task_type]
       ELSE /\ msg' = [msg EXCEPT ![t].status = "rejected",
                                  ![t].deliveries = @ + 1]
            /\ store' = [store EXCEPT ![t] = FailureExcEntry(
                 [kind |-> "NotRegistered", about |-> msg[t].task_type])]
            /\ w' = w
  /\ UNCHANGED <<batchAvailable, pool, lookup, ab, testRun, nextId, clock,
                 crashes, resp, lastAssign, tasksCall>>
  /\ UNCHANGED pushVars

\* list_available_tasks returns a dict; Celery stores SUCCESS and
\* acknowledges.
list_available_tasks ==
  /\ w.pc = "body"
  /\ msg[w.tid].name = ListName
  /\ store' = [store EXCEPT ![w.tid] =
       SuccessEntry("result", None, None, None)]
  /\ msg' = Ack(w.tid)
  /\ w' = Idle
  /\ UNCHANGED <<batchAvailable, pool, lookup, ab, testRun, nextId, clock,
                 crashes, resp, lastAssign, tasksCall>>
  /\ UNCHANGED pushVars

\* The task register_tasks builds for worker.<name>:
\*   lambda self, params, tn=task_name: execute_task(self, tn, params)
\* execute_task is the bound Celery task, which supplies its own self, so
\* the call passes four positional arguments to a function of three and
\* raises TypeError before the body of execute_task is entered.
DynamicCallError == [kind |-> "TypeError", about |-> "execute_task"]

dynamic_task ==
  /\ w.pc = "body"
  /\ msg[w.tid].name = DynamicName
  /\ w' = [w EXCEPT !.pc = "raised", !.exc = DynamicCallError]
  /\ UNCHANGED <<batchAvailable, pool, lookup, ab, testRun, nextId, msg,
                 store, clock, crashes, resp, lastAssign, tasksCall>>
  /\ UNCHANGED pushVars

\* execute_task, lines 169-190: start_timestamp, Timer.__enter__, handler
\* lookup; ValueError when there is none, else update_state(PROGRESS).
NoFunctionError(task_type) == [kind |-> "ValueError", about |-> task_type]

execute_task_begin ==
  /\ w.pc = "body"
  /\ msg[w.tid].name = ExecuteName
  /\ IF get_automation_function(w.task_type) = "none"
       THEN /\ w' = [w EXCEPT !.pc = "except",
                              !.start_timestamp = clock,
                              !.timer = TimerExit(TimerEnter(clock), clock),
                              !.exc = NoFunctionError(w.task_type)]
            /\ store' = store
       ELSE /\ w' = [w EXCEPT !.pc = "handler",
                              !.start_timestamp = clock,
                              !.timer = TimerEnter(clock)]
            /\ store' = [store EXCEPT ![request_id(w)] =
                 ProgressEntry(clock)]
  /\ UNCHANGED <<batchAvailable, pool, lookup, ab, testRun, nextId, msg,
                 clock, crashes, resp, lastAssign, tasksCall>>
  /\ UNCHANGED pushVars

\* The handler's failure, as execute_task sees it: str(e).
HandlerError(task_type) == [kind |-> "HandlerError", about |-> task_type]

\* execute_task, line 194: result = automation_func(params).  The handler
\* takes time and returns a dict, returns another value, or raises.
execute_task_handler(outcome) ==
  /\ w.pc = "handler"
  /\ clock < MaxClock
  /\ clock' = clock + 1
  /\ IF outcome = "raise"
       THEN w' = [w EXCEPT !.pc = "except",
                           !.timer = TimerExit(w.timer, clock + 1),
                           !.exc = HandlerError(w.task_type)]
       ELSE w' = [w EXCEPT !.pc = "merge", !.returned = outcome]
  /\ UNCHANGED <<batchAvailable, pool, lookup, ab, testRun, nextId, msg,
                 store, crashes, resp, lastAssign, tasksCall>>
  /\ UNCHANGED pushVars

\* execute_task, line 194, for the task type "approve_batches": the handler
\* is approve_batches(params) of the automation service.
call_approve_batches ==
  /\ w.pc = "handler"
  /\ get_automation_function(w.task_type) = "approve_batches"
  /\ ab.pc = "idle"
  /\ ab_invoke

\* approve_batches has returned its result dict to execute_task; a run that
\* failed comes back as a dict whose status is 'failed', never as an
\* exception.
return_approve_batches ==
  /\ w.pc = "handler"
  /\ get_automation_function(w.task_type) = "approve_batches"
  /\ ab.pc = "returned"
  /\ clock < MaxClock
  /\ clock' = clock + 1
  /\ w' = [w EXCEPT !.pc = "merge",
                    !.returned = IF ab.status = "failed" THEN "failed_dict"
                                 ELSE "dict"]
  /\ ab' = NoInvocation
  /\ UNCHANGED <<batchAvailable, pool, lookup, testRun, nextId, msg, store,
                 crashes, resp, lastAssign, tasksCall>>
  /\ UNCHANGED pushVars

\* execute_task, lines 196-213: wrap a non-dict, merge the metadata
\* (execution_time = timer.duration, read inside the with block), format the
\* duration for the log line, return.  Celery stores the returned dict as
\* SUCCESS and acknowledges.
FormatError == [kind |-> "TypeError", about |-> "format"]

\* result.update({...}), lines 202-209.
Merged(wk, now) ==
  [task_id |-> request_id(wk), task_type |-> wk.task_type,
   status |-> "completed",
   started_at |-> wk.start_timestamp, completed_at |-> now,
   execution_time |-> TimerDuration(wk.timer)]

execute_task_merge ==
  /\ w.pc = "merge"
  /\ IF FormatRaises(TimerDuration(w.timer))
       THEN /\ w' = [w EXCEPT !.pc = "except",
                              !.result = Merged(w, clock),
                              !.timer = TimerExit(w.timer, clock),
                              !.exc = FormatError]
            /\ UNCHANGED <<store, msg>>
       ELSE /\ store' = [store EXCEPT ![request_id(w)] =
                 SuccessEntry("result", w.start_timestamp, clock,
                              TimerDuration(w.timer))]
            /\ msg' = Ack(w.tid)
            /\ w' = Idle
  /\ UNCHANGED <<batchAvailable, pool, lookup, ab, testRun, nextId, clock,
                 crashes, resp, lastAssign, tasksCall>>
  /\ UNCHANGED pushVars

\* execute_task, lines 215-244: update_state(FAILURE, meta) with the error
\* message, started_at and failed_at.  The screenshot block in between only
\* computes screenshot_path, and swallows its own exceptions.
execute_task_except ==
  /\ w.pc = "except"
  /\ store' = [store EXCEPT ![request_id(w)] =
       FailureMetaEntry(w.exc, w.start_timestamp, clock)]
  /\ w' = [w EXCEPT !.pc = "raised"]
  /\ UNCHANGED <<batchAvailable, pool, lookup, ab, testRun, nextId, msg,
                 clock, crashes, resp, lastAssign, tasksCall>>
  /\ UNCHANGED pushVars

\* execute_task, line 247: raise.  "raised" is the exception leaving the task
\* body.
Propagates(pc) == pc = "raised"

\* Celery's handling of an exception that left the task body: the task is
\* marked failed with the exception, and the message is acknowledged.
celery_on_failure ==
  /\ Propagates(w.pc)
  /\ store' = [store EXCEPT ![w.tid] = FailureExcEntry(w.exc)]
  /\ msg' = Ack(w.tid)
  /\ w' = Idle
  /\ UNCHANGED <<batchAvailable, pool, lookup, ab, testRun, nextId, clock,
                 crashes, resp, lastAssign, tasksCall>>
  /\ UNCHANGED pushVars

\* task_time_limit = 30 * 60: the handler is still running when the hard
\* limit passes.  The prefork pool's supervisor marks the task failed with
\* TimeLimitExceeded, acknowledges the message and kills the child.  The solo
\* pool runs the task in the worker's own process and has nothing that
\* enforces a limit: the handler just goes on.
TimeLimitError == [kind |-> "TimeLimitExceeded", about |-> "hard"]

hard_time_limit ==
  /\ w.pc = "handler"
  /\ ~w.overdue
  /\ IF pool = "prefork"
       THEN /\ store' = [store EXCEPT ![w.tid] =
                 FailureExcEntry(TimeLimitError)]
            /\ msg' = Ack(w.tid)
            /\ w' = Idle
       ELSE /\ w' = [w EXCEPT !.overdue = TRUE]
            /\ UNCHANGED <<store, msg>>
  /\ UNCHANGED <<batchAvailable, pool, lookup, ab, testRun, nextId, clock,
                 crashes, resp, lastAssign, tasksCall>>
  /\ UNCHANGED pushVars

\* The prefork child that runs the task dies while the worker's main
\* process lives on.  task_reject_on_worker_lost is not set, so Celery marks
\* the task failed with WorkerLostError and acknowledges the message.
ChildLostError == [kind |-> "WorkerLostError", about |-> "child"]

child_lost ==
  /\ pool = "prefork"
  /\ w.pc # "idle"
  /\ crashes < MaxCrashes
  /\ crashes' = crashes + 1
  /\ store' = [store EXCEPT ![w.tid] = FailureExcEntry(ChildLostError)]
  /\ msg' = Ack(w.tid)
  /\ w' = Idle
  /\ UNCHANGED <<batchAvailable, pool, lookup, ab, testRun, nextId, clock,
                 resp, lastAssign, tasksCall>>
  /\ UNCHANGED pushVars

\* The worker instance is lost (machine or main process gone) while a task
\* is active: with task_acks_late the message was not acknowledged, and the
\* broker delivers it again.
WorkerLost ==
  /\ w.pc # "idle"
  /\ crashes < MaxCrashes
  /\ crashes' = crashes + 1
  /\ msg' = Redeliver(w.tid)
  /\ w' = Idle
  /\ UNCHANGED <<batchAvailable, pool, lookup, ab, testRun, nextId, store,
                 clock, resp, lastAssign, tasksCall>>
  /\ UNCHANGED pushVars

\* src/tasks.py execute_task, run by the worker of the legacy application:
\* for "approve_batches" it calls approve_batches(), which may raise, and
\* returns a string; for every other task type it returns a warning string.
\* Celery stores a returned string as SUCCESS, an exception as FAILURE.
LegacyError == [kind |-> "HandlerError", about |-> "approve_batches"]

legacy_execute_task(t, handlerRaises) ==
  /\ msg[t].status = "queued"
  /\ msg[t].name = LegacyName
  /\ store' = [store EXCEPT ![t] =
       IF msg[t].task_type = "approve_batches" /\ handlerRaises
         THEN FailureExcEntry(LegacyError)
         ELSE SuccessEntry("value", None, None, None)]
  /\ msg' = [msg EXCEPT ![t].status = "acked", ![t].deliveries = @ + 1]
  /\ UNCHANGED <<batchAvailable, pool, lookup, ab, testRun, nextId, w, clock,
                 crashes, resp, lastAssign, tasksCall>>
  /\ UNCHANGED pushVars

\* ------------------------------------------------- live updates (websocket)
coreVars == <<batchAvailable, nextId, msg, store, w, clock, crashes, resp,
              lastAssign, tasksCall, pool, lookup, ab, testRun>>

\* ConnectionManager.connect: accept, then active_connections[task_id] = ws.
connect(s, t) == [active_connections EXCEPT ![t] = s]

\* ConnectionManager.disconnect: delete the entry of task_id, if any.
disconnect(conns, t) == [conns EXCEPT ![t] = 0]

\* What the client of connection `to` holds after a message of kind k
\* ("update" or "final") written by the loop of connection `from`.
Received(box, to, from, k) ==
  [box EXCEPT ![to] =
     [updates |-> IF k = "update" THEN @.updates + 1 ELSE @.updates,
      finals |-> IF k = "final" THEN @.finals + 1 ELSE @.finals,
      foreign |-> @.foreign \/ from # to]]

\* ConnectionManager.send_update, called by the loop of connection s: send
\* on the websocket registered for task_id, if there is one; a send that
\* raises (the peer is gone) is logged and the entry is removed.
send_update(s, t, k) ==
  IF active_connections[t] = 0
    THEN UNCHANGED <<active_connections, inbox>>
    ELSE IF sub[active_connections[t]].open
      THEN /\ inbox' = Received(inbox, active_connections[t], s, k)
           /\ UNCHANGED active_connections
      ELSE /\ active_connections' = disconnect(active_connections, t)
           /\ UNCHANGED inbox

\* send_update, lines 108-110: the connection a send for task t fails on
\* (0 when the send does not fail), and the note that it was dropped.
FailsOn(t) ==
  IF active_connections[t] # 0 /\ ~sub[active_connections[t]].open
    THEN active_connections[t]
    ELSE 0

MarkDropped(f, c) == IF c = 0 THEN f ELSE [f EXCEPT ![c].dropped = TRUE]

\* websocket_endpoint, line 344: a client connects for task id t.
websocket_connect(s, t) ==
  /\ sub[s].pc = "idle"
  /\ sub' = [sub EXCEPT ![s] =
       [pc |-> "loop", tid |-> t, open |-> TRUE, left |-> FALSE,
        polls |-> 0, final_status |-> "none", dropped |-> FALSE,
        key |-> TRUE]]
  /\ active_connections' = connect(s, t)
  /\ UNCHANGED inbox
  /\ UNCHANGED coreVars

\* /ws/task/{task_id} as a client opens it, with or without the key.  The
\* middleware is registered for "http" and passes every other scope on, so
\* the handshake reaches websocket_endpoint whatever the headers are.
ws_task(s, t, keyOk) ==
  /\ sub[s].pc = "idle"
  /\ IF api_key_middleware("/ws/task/{task_id}", "websocket", keyOk) = "401"
       THEN /\ sub' = [sub EXCEPT ![s] =
                 [NoSub EXCEPT !.pc = "closed", !.key = keyOk]]
            /\ UNCHANGED active_connections
       ELSE /\ sub' = [sub EXCEPT ![s] =
                 [NoSub EXCEPT !.pc = "loop", !.tid = t, !.open = TRUE,
                               !.key = keyOk]]
            /\ active_connections' = connect(s, t)
  /\ UNCHANGED inbox
  /\ UNCHANGED coreVars

\* Building update_message raises: reading the state raises, or
\* async_result.info is truthy and has no .get.
UpdateRaises(e) ==
  \/ AsyncResultRaises(e)
  \/ InfoTruthy(e) /\ ~InfoIsMapping(e)

\* websocket_endpoint, lines 346-360 and 374: one iteration of the loop up to
\* the status message; an exception ends the endpoint through
\* manager.disconnect (line 380).
websocket_poll(s) ==
  LET t == sub[s].tid
      e == store[t]
  IN
  /\ sub[s].pc = "loop"
  /\ sub[s].polls < MaxPolls
  /\ IF UpdateRaises(e)
       THEN /\ active_connections' = disconnect(active_connections, t)
            /\ sub' = [sub EXCEPT ![s].pc = "closed", ![s].open = FALSE]
            /\ UNCHANGED inbox
       ELSE /\ send_update(s, t, "update")
            /\ sub' = MarkDropped([sub EXCEPT
                 ![s].polls = @ + 1,
                 ![s].pc = IF AsyncResultState(e) \in ReadyStates
                             THEN "final" ELSE "loop",
                 ![s].final_status =
                   IF AsyncResultState(e) = "SUCCESS" THEN "completed"
                   ELSE IF AsyncResultState(e) = "FAILURE" THEN "failed"
                   ELSE "none"], FailsOn(t))
  /\ UNCHANGED coreVars

\* websocket_endpoint, lines 363-371: the final message, then break.
websocket_final(s) ==
  /\ sub[s].pc = "final"
  /\ send_update(s, sub[s].tid, "final")
  /\ sub' = MarkDropped([sub EXCEPT ![s].pc = "done", ![s].open = FALSE],
                        FailsOn(sub[s].tid))
  /\ UNCHANGED coreVars

\* The client of connection s goes away while its loop runs.
client_close(s) ==
  /\ sub[s].pc \in {"loop", "final"}
  /\ sub[s].open
  /\ sub' = [sub EXCEPT ![s].open = FALSE, ![s].left = TRUE]
  /\ UNCHANGED <<active_connections, inbox>>
  /\ UNCHANGED coreVars

\* ---------------------------------------------------------- specification
\* The whole task pipeline: every way a task enters the queue, the worker,
\* the result query and the expiry of results.
Next ==
  \/ \E ty \in TaskTypes, up \in BOOLEAN : assign_task(ty, up)
  \/ \E up \in BOOLEAN : get_tasks_send(up)
  \/ get_tasks_return
  \/ \E ty \in TaskTypes : send_execute_task(ty)
  \/ \E ty \in TaskTypes : legacy_assign_task(ty)
  \/ \E t \in TaskIds : Query(t)
  \/ \E t \in TaskIds : Expire(t)
  \/ \E t \in TaskIds : Claim(t)
  \/ list_available_tasks
  \/ dynamic_task
  \/ execute_task_begin
  \/ \E o \in {"dict", "value", "raise"} : execute_task_handler(o)
  \/ execute_task_merge
  \/ execute_task_except
  \/ celery_on_failure
  \/ hard_time_limit
  \/ child_lost
  \/ WorkerLost
  \/ \E t \in TaskIds, r \in BOOLEAN : legacy_execute_task(t, r)

Spec == Init /\ [][Next]_vars

\* Tasks submitted through POST /assign-task/, and their results.
OrchNext ==
  \/ \E ty \in TaskTypes, up \in BOOLEAN : assign_task(ty, up)
  \/ \E t \in TaskIds : Query(t)
  \/ \E t \in TaskIds : Expire(t)
  \/ \E t \in TaskIds : Claim(t)
  \/ dynamic_task
  \/ celery_on_failure
  \/ WorkerLost

SpecOrch == Init /\ [][OrchNext]_vars

\* execute_task invoked with (task_type, params), and its results.
ExecNext ==
  \/ \E ty \in TaskTypes : send_execute_task(ty)
  \/ \E t \in TaskIds : Expire(t)
  \/ \E t \in TaskIds : Claim(t)
  \/ execute_task_begin
  \/ \E o \in {"dict", "value", "raise"} : execute_task_handler(o)
  \/ execute_task_merge
  \/ execute_task_except
  \/ celery_on_failure
  \/ hard_time_limit
  \/ child_lost
  \/ WorkerLost

SpecExec == Init /\ [][ExecNext]_vars

\* The live-update endpoint over tasks submitted through the orchestrator.
PushNext ==
  \/ \E ty \in TaskTypes : assign_task(ty, TRUE)
  \/ get_tasks_send(TRUE)
  \/ \E t \in TaskIds : Claim(t)
  \/ list_available_tasks
  \/ dynamic_task
  \/ celery_on_failure
  \/ \E s \in Subs, t \in TaskIds : websocket_connect(s, t)
  \/ \E s \in Subs : websocket_poll(s)
  \/ \E s \in Subs : websocket_final(s)
  \/ \E s \in Subs : client_close(s)

SpecPush == Init /\ [][PushNext]_vars

\* Delivery of the messages of submitted tasks.  The worker is a loop that
\* takes the next message whenever it is idle and runs every step of a task
\* body it began, so its steps are weakly fair; submissions, expiry and the
\* loss of the worker are not.
QueueNext ==
  \/ \E ty \in TaskTypes, up \in BOOLEAN : assign_task(ty, up)
  \/ \E t \in TaskIds : Expire(t)
  \/ \E t \in TaskIds : Claim(t)
  \/ dynamic_task
  \/ celery_on_failure
  \/ child_lost
  \/ WorkerLost

SpecQueueFair ==
  /\ Init
  /\ [][QueueNext]_vars
  /\ WF_vars(\E t \in TaskIds : Claim(t))
  /\ WF_vars(dynamic_task)
  /\ WF_vars(celery_on_failure)

\* Several tasks in flight at once: submissions through POST /assign-task/
\* and invocations of worker.execute_task, interleaved with the worker's
\* execution of them.
ConcNext ==
  \/ \E ty \in TaskTypes : assign_task(ty, TRUE)
  \/ \E ty \in TaskTypes : send_execute_task(ty)
  \/ \E t \in TaskIds : Claim(t)
  \/ dynamic_task
  \/ execute_task_begin
  \/ \E o \in {"dict", "value", "raise"} : execute_task_handler(o)
  \/ execute_task_merge
  \/ execute_task_except
  \/ celery_on_failure
  \/ WorkerLost

SpecConc == Init /\ [][ConcNext]_vars

\* The handler registry and its users: direct lookups, and execute_task,
\* which looks the handler of its task type up.
RegistryNext ==
  \/ \E name \in Names : Lookup(name)
  \/ \E ty \in TaskTypes : send_execute_task(ty)
  \/ \E t \in TaskIds : Claim(t)
  \/ execute_task_begin
  \/ \E o \in {"dict", "value", "raise"} : execute_task_handler(o)
  \/ execute_task_merge
  \/ execute_task_except
  \/ celery_on_failure

SpecRegistry == Init /\ [][RegistryNext]_vars

\* The listing of task types: GET /tasks/ and the worker call behind it.
TasksNext ==
  \/ \E up \in BOOLEAN : get_tasks_send(up)
  \/ get_tasks_return
  \/ \E t \in TaskIds : Expire(t)
  \/ \E t \in TaskIds : Claim(t)
  \/ list_available_tasks
  \/ child_lost
  \/ WorkerLost

SpecTasks == Init /\ [][TasksNext]_vars

\* Submission as clients see it: requests with and without the key, with
\* and without a well-formed body, and the worker behind them.
SubmitNext ==
  \/ \E k \in BOOLEAN, ty \in Names, m \in BOOLEAN, up \in BOOLEAN :
       post_assign_task(k, ty, m, up)
  \/ \E t \in TaskIds : Claim(t)
  \/ dynamic_task
  \/ celery_on_failure

SpecSubmit == Init /\ [][SubmitNext]_vars

\* The orchestrator's endpoints as clients with and without the key reach
\* them: submission, result query and the live-update subscription.  No
\* worker runs: the tasks stay queued, and their state is PENDING.
ApiNext ==
  \/ \E k \in BOOLEAN, ty \in TaskTypes : post_assign_task(k, ty, TRUE, TRUE)
  \/ \E k \in BOOLEAN, t \in TaskIds : get_result(k, t)
  \/ \E s \in Subs, t \in TaskIds, k \in BOOLEAN : ws_task(s, t, k)
  \/ \E s \in Subs : websocket_poll(s)

SpecApi == Init /\ [][ApiNext]_vars

\* The handlers called directly, outside any task.
HandlersNext ==
  \/ \E d \in Durations, r \in SuccessRates, x \in RandomDraws,
        c \in CountDraws, n \in ItemDraws :
       call_test_automation_task(d, r, x, c, n)
  \/ ab_invoke
  \/ \E o \in {"none", "unconfigured", "ok"} : ab_setup_driver(o)
  \/ \E ok \in BOOLEAN : ab_login(ok)
  \/ \E ok \in BOOLEAN : ab_navigate(ok)
  \/ \E pending \in BOOLEAN : ab_process(pending)
  \/ ab_except
  \/ ab_finally

SpecHandlers == Init /\ [][HandlersNext]_vars

\* worker.execute_task running the batch approval handler.
BatchNext ==
  \/ \E ty \in TaskTypes : send_execute_task(ty)
  \/ \E t \in TaskIds : Claim(t)
  \/ execute_task_begin
  \/ call_approve_batches
  \/ \E o \in {"none", "unconfigured", "ok"} : ab_setup_driver(o)
  \/ \E ok \in BOOLEAN : ab_login(ok)
  \/ \E ok \in BOOLEAN : ab_navigate(ok)
  \/ \E pending \in BOOLEAN : ab_process(pending)
  \/ ab_except
  \/ ab_finally
  \/ return_approve_batches
  \/ execute_task_merge
  \/ execute_task_except
  \/ celery_on_failure

SpecBatch == Init /\ [][BatchNext]_vars

\* ------------------------------------------------------------------ claims
\* The worker is inside execute_task invoked as worker.execute_task.
InExecuteTask == w.pc # "idle" /\ msg[w.tid].name = ExecuteName

\* C1: when the resolved handler returns a payload without raising,
\* execute_task ends in SUCCESS and never enters its failure path: after the
\* handler returned, the run is never in the except block nor raising.
C1_ReturnedHandlerNeverFails ==
  (InExecuteTask /\ w.returned # "none") => w.pc \notin {"except", "raised"}

\* C4: the terminal record of a task is written exactly once: once SUCCESS
\* or FAILURE is stored for a task id, no later write changes the stored
\* status or contents (the record may only expire).
C4_TerminalWrittenOnce ==
  [][\A t \in TaskIds :
       store[t].state \in ReadyStates =>
         (store'[t] = store[t] \/ store'[t] = NoEntry)]_vars

\* The handler of this run raised, and the except block has run.
HandlerFailureHandled ==
  /\ InExecuteTask
  /\ w.exc = HandlerError(w.task_type)
  /\ w.pc # "except"

NotInRegistry(task_type) == task_map(task_type) = "absent"

\* The execution attempt of task t has ended.
AttemptEnded(t) == msg[t].status \in {"acked", "rejected"}

\* C2: for every task type that is not in the registry, an execution attempt
\* ends in FAILURE with an error that identifies the unknown task type, and
\* the message has left the queue for good.
C2_UnknownTypeFails ==
  \A t \in TaskIds :
    (AttemptEnded(t) /\ NotInRegistry(msg[t].task_type)
       /\ msg[t].name # ListName /\ store[t].state # "NONE") =>
      /\ store[t].state = "FAILURE"
      /\ store[t].error.about = msg[t].task_type

\* C3: what the result query reports for one task id is monotonic: after an
\* answer with a terminal status, the next answer for the same id is not
\* pending, started or progress.
C3_TerminalStaysTerminal ==
  [][(resp.status \in {"completed", "failed"}
        /\ resp'.task_id = resp.task_id) =>
       resp'.status \notin {"pending", "started", "progress"}]_vars

\* C5: a result query for the task id assign_task just returned, made before
\* any worker has claimed the task, reports pending.
C5_PendingBeforeClaim ==
  [][\A t \in TaskIds :
       (Query(t) /\ msg[t].name = DynamicName /\ msg[t].status = "queued"
          /\ msg[t].deliveries = 0) =>
         (resp'.status = "pending" /\ resp'.code = 200)]_vars

C5_Witness ==
  /\ lastAssign.status = "assigned"
  /\ resp.task_id = lastAssign.task_id
  /\ msg[resp.task_id].status = "queued"
  /\ msg[resp.task_id].deliveries = 0
  /\ resp.status = "pending"

\* C6: a result query for a task id that was never submitted, or whose
\* terminal result has expired, reports unknown or expired, and no live
\* state such as pending.
C6_UnknownOrExpired ==
  [][\A t \in TaskIds :
       (Query(t) /\ store[t].state = "NONE"
          /\ (msg[t].status = "none" \/ AttemptEnded(t))) =>
         (resp'.status \in {"unknown", "expired"} /\ ~resp'.has_result)]_vars

\* C8: for every task in terminal FAILURE the result query answers with
\* status failed and the error of the failure, never with an internal error.
C8_FailedTaskAnsweredFailed ==
  [][\A t \in TaskIds :
       (Query(t) /\ store[t].state = "FAILURE" /\ AttemptEnded(t)) =>
         (resp'.status = "failed" /\ resp'.error = store[t].error)]_vars

\* The loop of connection s has ended.
LoopEnded(s) == sub[s].pc \in {"done", "closed"}

\* Connection s is the only one that was ever opened, and its client stayed.
SoleSubscriber(s) ==
  /\ ~sub[s].left
  /\ \A o \in Subs \ {s} : sub[o].pc = "idle"

\* C9: when a subscribed task reaches a terminal state, SUCCESS or FAILURE,
\* the endpoint sends the subscriber exactly one final message and then ends
\* the loop.
C9_OneFinalMessage ==
  \A s \in Subs :
    (LoopEnded(s) /\ SoleSubscriber(s)
       /\ store[sub[s].tid].state \in ReadyStates) =>
      inbox[s].finals = 1

\* C10: concurrent subscribers of one task id are independent: each receives
\* only the messages of its own loop, and at most one final message.
C10_SubscribersIndependent ==
  \A s \in Subs : ~inbox[s].foreign /\ inbox[s].finals <= 1

\* The broker no longer holds the message: acknowledged or rejected.
Settled(m) == m.status \in {"acked", "rejected"}

C12_FailedTaskNotReexecuted ==
  /\ [][\A t \in TaskIds : Settled(msg[t]) => msg'[t] = msg[t]]_vars
  /\ [][\A t \in TaskIds :
          (msg[t].status = "active" /\ msg'[t].status = "queued") =>
            crashes' = crashes + 1]_vars
  /\ [](w.pc \in {"handler", "merge"} => msg[w.tid].status = "active")

\* A task whose handler raised: FAILURE stored, message acknowledged after
\* one delivery, and the worker idle again, free to take messages.
C12_Witness ==
  \E t \in TaskIds :
    /\ store[t].state = "FAILURE"
    /\ store[t].error.kind = "HandlerError"
    /\ msg[t].status = "acked"
    /\ msg[t].deliveries = 1
    /\ w.pc = "idle"

\* C13: whenever a handler is still running as the hard time limit passes,
\* the task ends there: FAILURE of kind TimeLimitExceeded is stored and the
\* message is acknowledged, whichever pool the worker started with.
C13_HardLimitEndsTask ==
  [][hard_time_limit =>
       /\ store'[w.tid].state = "FAILURE"
       /\ store'[w.tid].error.kind = "TimeLimitExceeded"
       /\ msg'[w.tid].status = "acked"]_vars

\* C14: the result execute_task builds for a handler that returned carries
\* the task's id and type, started_at, completed_at, and an execution_time
\* that is not null and equals the time elapsed between the two.
C14_EnvelopeHasExecutionTime ==
  (InExecuteTask /\ w.result.task_id # None) =>
    /\ w.result.task_id = w.tid
    /\ w.result.task_type = w.task_type
    /\ w.result.started_at # None
    /\ w.result.completed_at # None
    /\ w.result.execution_time # None
    /\ w.result.execution_time =
         w.result.completed_at - w.result.started_at

\* C15: every accepted submission gets a task id no earlier submission got,
\* and the entry stored for a task changes only in steps of that task's own
\* delivery: the worker is executing it before or after the step, or the
\* step rejects its message.
C15_DistinctIdsNoInterference ==
  /\ [][(lastAssign' # lastAssign /\ lastAssign'.status = "assigned") =>
          /\ msg[lastAssign'.task_id].status = "none"
          /\ msg'[lastAssign'.task_id].status = "queued"]_vars
  /\ [][\A t \in TaskIds :
          store'[t] # store[t] =>
            \/ t \in {w.tid, w'.tid}
            \/ msg'[t].status = "rejected" /\ msg[t].status = "queued"]_vars

\* Two tasks in flight together, both ended, with different stored errors.
C15_Witness ==
  /\ \A t \in 1..2 : store[t].state \in ReadyStates
  /\ msg[1].name # msg[2].name
  /\ store[1].error # store[2].error
  /\ msg[2].deliveries >= 1 /\ msg[1].deliveries >= 1

\* The task of connection s has not been delivered to any worker yet:
\* nothing was ever stored for it, its state has been PENDING all along.
NeverDelivered(s) ==
  /\ msg[sub[s].tid].deliveries = 0
  /\ store[sub[s].tid] = NoEntry

\* C16: the endpoint sends one message per observed state transition: a
\* poll that finds the state it found at the previous poll sends no status
\* message.  Stated for the polls after the first of a task that was never
\* delivered, whose state cannot have changed in between.
C16_NoMessageWithoutTransition ==
  [][\A s \in Subs :
       (websocket_poll(s) /\ sub[s].polls >= 1 /\ NeverDelivered(s)) =>
         inbox' = inbox]_vars

\* C17: once a send to a subscriber has failed, its subscription is dropped:
\* it is not in the active connections, it receives nothing further, and its
\* loop is not served any more (no further poll, no final message); and the
\* step in which a send fails changes nothing outside the notifier.
C17_FailedSendDropsSubscription ==
  [][/\ \A c \in Subs :
          sub[c].dropped =>
            /\ active_connections[sub[c].tid] # c
            /\ inbox'[c] = inbox[c]
            /\ ~websocket_poll(c)
            /\ ~websocket_final(c)
     /\ (\E c \in Subs : sub'[c].dropped /\ ~sub[c].dropped) =>
          UNCHANGED coreVars]_vars

\* C18: get_automation_function returns the mapped handler for a name that
\* is registered with an available handler, and None for every other name:
\* a name that is no key (the empty string among them) and a key whose
\* handler is unavailable.  execute_task runs a handler only for a task type
\* the lookup resolved.
C18_LookupResolvesOrNone ==
  /\ lookup.name = "test_task" => lookup.func = "test_automation_task"
  /\ (lookup.name = "approve_batches" /\ batchAvailable) =>
       lookup.func = "approve_batches"
  /\ (lookup.name = "approve_batches" /\ ~batchAvailable) =>
       lookup.func = "none"
  /\ lookup.name \notin task_map_keys => lookup.func = "none"
  /\ (InExecuteTask /\ w.pc = "handler") =>
       \/ w.task_type = "test_task"
       \/ w.task_type = "approve_batches" /\ batchAvailable

\* The lookup of the empty string answered None.
C18_Witness == lookup.name = "" /\ lookup.func = "none"

\* C19: every task type the worker advertises, through health_check (the
\* keys of TASK_MAPPING) or list_available_tasks (the keys of task_map),
\* resolves to a handler and is registered as worker.<type>; and the two
\* advertised sets are equal.
C19_AdvertisedTypesExecutable ==
  /\ \A ty \in TASK_MAPPING_keys \cup task_map_keys :
       /\ get_automation_function(ty) # "none"
       /\ DynamicRegistered(ty)
  /\ TASK_MAPPING_keys = task_map_keys

\* This step answers GET /tasks/.
TasksAnswered ==
  tasksCall' # tasksCall /\ tasksCall'.status \in {"ok", "error"}

\* The request did not get the worker's listing: send_task raised, or the
\* wait ended without a SUCCESS result.
RegistryUnreached ==
  \/ tasksCall.status # "waiting"
  \/ store[tasksCall.task_id].state # "SUCCESS"

\* C20 as stated: a listing request that cannot reach the registry is
\* answered successfully, with the fallback list.
C20_FallbackAnsweredSuccessfully ==
  [][(TasksAnswered /\ RegistryUnreached) =>
       /\ tasksCall'.code = 200
       /\ tasksCall'.fallback_tasks = {"approve_batches", "test_task"}]_vars

\* C20, amended: a listing request that cannot reach the registry is
\* answered with status 500 and "error", carrying the fallback list
\* approve_batches, test_task in its details and no available_tasks.
C20_FallbackInErrorAnswer ==
  [][(TasksAnswered /\ RegistryUnreached) =>
       /\ tasksCall'.code = 500
       /\ tasksCall'.status = "error"
       /\ tasksCall'.available_tasks = {}
       /\ tasksCall'.fallback_tasks = {"approve_batches", "test_task"}]_vars

\* A listing request answered while its worker call was still queued: the
\* wait timed out.
C20_Witness ==
  /\ tasksCall.status = "error"
  /\ tasksCall.task_id # 0
  /\ msg[tasksCall.task_id].status = "queued"
  /\ tasksCall.fallback_tasks # {}

\* C21: a submission is accepted exactly when its type name is not empty
\* and its params are a mapping: a request with an empty type name enqueues
\* nothing, and a well-formed request with any other type name is enqueued
\* and answered 'assigned' with its task id.
C21_EmptyTypeRejected ==
  [][\A ty \in Names, m \in BOOLEAN :
       post_assign_task(TRUE, ty, m, TRUE) =>
         IF ty # "" /\ m
           THEN /\ lastAssign'.status = "assigned"
                /\ msg'[lastAssign'.task_id].status = "queued"
           ELSE /\ msg' = msg
                /\ lastAssign'.status # "assigned"]_vars

\* C22: when the broker is unavailable, assign_task answers its caller with
\* an error that carries no task id and enqueues nothing; and an answer
\* 'assigned' always names a task that was enqueued.
C22_BrokerDownReported ==
  /\ [][\A ty \in Names :
          post_assign_task(TRUE, ty, TRUE, FALSE) =>
            /\ lastAssign' = [status |-> "error", task_id |-> 0]
            /\ msg' = msg
            /\ nextId' = nextId]_vars
  /\ [](lastAssign.status = "assigned" =>
          /\ lastAssign.task_id \in TaskIds
          /\ msg[lastAssign.task_id].status # "none")

\* A submission failed on the broker after an earlier one was accepted and
\* its message is still queued.
C22_Witness ==
  /\ lastAssign = [status |-> "error", task_id |-> 0]
  /\ \E t \in TaskIds : msg[t].status = "queued"

\* C23: with success_rate 1.0 test_automation_task returns a dict with
\* status 'completed', a positive approved_count, a non-empty details list
\* and execution_time equal to the requested duration; with success_rate
\* 0.0 it raises an exception whose message contains 'failed'; whatever the
\* random draws.
C23_TestTaskOutcomeFixedByRate ==
  /\ testRun.success_rate = 10 =>
       /\ testRun.outcome = "return"
       /\ testRun.status = "completed"
       /\ testRun.approved_count > 0
       /\ Len(testRun.details) > 0
       /\ testRun.execution_time = testRun.duration
  /\ testRun.success_rate = 0 =>
       /\ testRun.outcome = "raise"
       /\ \E i \in 1..Len(testRun.message) : testRun.message[i] = "failed"

\* A call with success_rate 0.0 raised.
C23_Witness == testRun.success_rate = 0 /\ testRun.outcome = "raise"

\* C28: approve_batches releases its browser on every exit path: when an
\* invocation that created a browser has returned, quit() was called on it.
C28_BrowserReleased ==
  (ab.pc = "returned" /\ ab.browser) => ab.quit


\* The position of a stored state on the path
\* PENDING -> STARTED -> PROGRESS -> {SUCCESS | FAILURE}.
StateRank(state) ==
  CASE state = "NONE" -> 0
    [] state = "STARTED" -> 1
    [] state = "PROGRESS" -> 2
    [] OTHER -> 3

\* C24: the states written to the result store for one task follow
\* PENDING -> STARTED -> (PROGRESS)* -> {SUCCESS | FAILURE}: every write
\* stores a state that is not earlier on that path than the state it
\* replaces, PROGRESS is written only by the step that resolved the handler,
\* and the handler is entered only for a task that has left PENDING.
C24_StatesMoveForward ==
  [][/\ \A t \in TaskIds :
          (store'[t] # store[t] /\ store'[t].state # "NONE") =>
            /\ StateRank(store'[t].state) >= StateRank(store[t].state)
            /\ store'[t].state = "PROGRESS" =>
                 (w.pc = "body" /\ w'.pc = "handler" /\ w.tid = t)
     /\ (w'.pc = "handler" /\ w.pc # "handler") =>
          store'[w'.tid].state \in {"STARTED", "PROGRESS"}]_vars


\* C25: a run of approve_batches that could not complete its workflow ends
\* the task in FAILURE carrying the handler's error; it is never stored as a
\* success.
C25_FailedBatchRunFails ==
  [][(w.returned = "failed_dict" /\ msg'[w.tid].status = "acked") =>
       /\ store'[w.tid].state = "FAILURE"
       /\ store'[w.tid].error = HandlerError("approve_batches")]_vars


\* C26: the task worker.<name> runs the handler mapped to <name>: when the
\* body of a dynamically registered task has taken its step, the worker is
\* in the handler that task_map gives for the submitted task type, and in no
\* other.
C26_DynamicTaskRunsItsHandler ==
  [][dynamic_task =>
       /\ w'.pc = "handler"
       /\ get_automation_function(w'.task_type) =
            task_map(msg[w.tid].task_type)]_vars


\* C27: every task the dispatcher enqueues is on a queue the started worker
\* consumes, and no such task stays queued for ever.
C27_EnqueuedOnConsumedQueue ==
  /\ [](\A t \in TaskIds :
          NamePrefix(msg[t].name) = "worker" => msg[t].queue \in Consumed)
  /\ \A t \in TaskIds :
       (NamePrefix(msg[t].name) = "worker" /\ msg[t].status = "queued")
         ~> (msg[t].status # "queued")

\* A task submitted through the dispatcher was taken from worker_queue and
\* run to its end.
C27_Witness ==
  \E t \in TaskIds :
    /\ msg[t].name = DynamicName
    /\ msg[t].queue = "worker_queue"
    /\ msg[t].status = "acked"


\* C29: a client that does not present the key gets no task enqueued and
\* learns no task state: its submission changes no message, its result
\* query is answered without a task status, and its subscription receives
\* no message.
C29_NoKeyNoService ==
  /\ [][(\E ty \in TaskTypes : post_assign_task(FALSE, ty, TRUE, TRUE)) =>
          msg' = msg]_vars
  /\ [][(\E t \in TaskIds : get_result(FALSE, t)) =>
          resp'.status = "unauthorized"]_vars
  /\ [](\A s \in Subs :
          ~sub[s].key => inbox[s].updates = 0 /\ inbox[s].finals = 0)


\* C30: once the loop of a subscription has ended, for whatever reason,
\* active_connections no longer holds that connection under its task id.
C30_EndedSubscriptionRemoved ==
  \A s \in Subs :
    LoopEnded(s) => active_connections[sub[s].tid] # s

============================================================================
